---- MODULE Spec2Model ----
(***************************************************************************)
(* A model of src/steve.py: the STEVE pipeline (class Pipeline).           *)
(*                                                                         *)
(* Pipeline.pipe is a generator: its body runs only while the host pulls   *)
(* the next fragment, a `return` ends the output stream and an uncaught    *)
(* exception reaches the host.  The model follows one request through      *)
(* spit_system_prompt, the requirements loop, process_files, render, the   *)
(* request shaping and the dispatch to the pipe hook, the local provider,  *)
(* the remote provider or the prompt echo.                                 *)
(*                                                                         *)
(* Strings the code only passes around are tokens; paths are sequences of  *)
(* path components; the file system is the set of directories and the set  *)
(* of files (path, content) below "/".                                     *)
(***************************************************************************)
EXTENDS FiniteSets, Integers, Sequences, TLC

VARIABLES
    pc,        \* position of the generator body of pipe
    ctl,       \* "host": the generator is suspended; "gen": its body is running
    messages,  \* body["messages"]
    stream,    \* body["stream"]
    orig,      \* the message list the host passed in (history)
    header,    \* header: [kind, keys]
    files,     \* header["files"]: the declared File Entries, in mapping order
    template,  \* system_template after the split
    fs,        \* the file system: [dirs, files]
    log,       \* what Pipeline.log has printed
    idx,       \* process_files: number of entries the loop has taken
    outcome,   \* process_files: what happened to each entry taken (history)
    snap,      \* process_files: the file system before each entry taken (history)
    filesRet,  \* the value process_files returned
    system,    \* the rendered prompt
    hooks,     \* interface_functions: [pipe, inlet, outlet]
    branch,    \* the dispatch alternative chosen
    invoked,   \* which of the pipe hook / provider clients have been called
    wire,      \* the response: the chunks of the provider stream, the items of the pipe hook
    taken,     \* how many of them the loop has taken
    calls,     \* the calls made on the response processor (history)
    pend,      \* fragments computed and not yet yielded
    out        \* the fragments the host has received

vars == <<pc, ctl, messages, stream, orig, header, files, template, fs, log, idx,
          outcome, snap, filesRet, system, hooks, branch, invoked, wire, taken,
          calls, pend, out>>

(***************************************************************************)
(* Bounds of the model.                                                    *)
(***************************************************************************)
MaxMsgs == 2       \* messages in the incoming request
MaxFiles == 2      \* declared File Entries checked in isolation
MaxChunks == 3     \* chunks a provider stream delivers
MaxItems == 2      \* items a pipe hook produces
MaxSize == 4       \* messages, File Entries and chunks or items of a whole request

(***************************************************************************)
(* Paths.                                                                  *)
(***************************************************************************)
\* root = os.path.join("/app", "steve", str(uuid.uuid4()))
Root == <<"app", "steve", "uuid">>

\* os.path.dirname of a normalized absolute path
Dirname(p) == IF Len(p) = 0 THEN p ELSE SubSeq(p, 1, Len(p) - 1)

\* os.path.abspath's normalization: ".." removes the component before it
RECURSIVE Normpath(_, _)
Normpath(done, rest) ==
    IF rest = <<>> THEN done
    ELSE IF Head(rest) = ".."
         THEN Normpath(Dirname(done), Tail(rest))
         ELSE Normpath(Append(done, Head(rest)), Tail(rest))

\* the last component of a declared target key
Basename(name) == name.base \o "." \o name.ext

\* os.path.abspath(os.path.join(temp_dir_path, filename)): an absolute key
\* replaces the working area
FullPath(root, name) ==
    Normpath(<<>>, (IF name.abs THEN <<>> ELSE root) \o name.dirs \o <<Basename(name)>>)

\* the target key as the header spells it
RECURSIVE JoinPath(_)
JoinPath(parts) ==
    IF Len(parts) = 1 THEN Head(parts) ELSE Head(parts) \o "/" \o JoinPath(Tail(parts))

Key(name) == (IF name.abs THEN "/" ELSE "") \o JoinPath(name.dirs \o <<Basename(name)>>)

\* filename.endswith(".zip")
IsZip(name) == name.ext = "zip"

IsPrefix(p, q) == Len(p) <= Len(q) /\ SubSeq(q, 1, Len(p)) = p

Prefixes(p) == {SubSeq(p, 1, n) : n \in 1..Len(p)}

(***************************************************************************)
(* The file system.                                                        *)
(***************************************************************************)
\* os.path.exists
Exists(f, p) == p \in f.dirs \/ \E x \in f.files : x.p = p

\* os.makedirs(path, exist_ok=True)
Makedirs(f, p) == [f EXCEPT !.dirs = @ \cup Prefixes(p)]

\* a variant of Rmtree that removes the directory above as well
RmtreeParent(f, p) ==
    [dirs |-> {d \in f.dirs : ~IsPrefix(Dirname(p), d)},
     files |-> {x \in f.files : ~IsPrefix(Dirname(p), x.p)}]

\* shutil.rmtree(path)
Rmtree(f, p) ==
    [dirs |-> {d \in f.dirs : ~IsPrefix(p, d)},
     files |-> {x \in f.files : ~IsPrefix(p, x.p)}]

\* open(full_path, 'wb').write(file_data)
WriteFile(f, p, c) ==
    [f EXCEPT !.files = {x \in @ : x.p # p} \cup {[p |-> p, c |-> c]}]

\* zipfile.ZipFile.extractall(path): every member is written below path,
\* replacing a file of the same name
ExtractAll(f, dest, members, c) ==
    [dirs |-> f.dirs \cup UNION {Prefixes(Dirname(dest \o m)) : m \in members},
     files |-> {x \in f.files : \A m \in members : x.p # dest \o m}
               \cup {[p |-> dest \o m, c |-> c] : m \in members}]

\* the working area right after pipe created it
EmptyRoot == [dirs |-> Prefixes(Root), files |-> {}]

(***************************************************************************)
(* Inputs: archives and File Entries.                                      *)
(***************************************************************************)
\* the members of the archives a request can carry
SysMembers == {<<"system.mako">>, <<"m.txt">>, <<"a.txt">>, <<"d", "old.txt">>}
ZipMembers == {<<"m.txt">>}

\* the archives an encoded system payload can be
SysArchives == {SysMembers, {<<"m.txt">>}}

\* the target keys a header declares: "a.txt", "b.zip", "d/c.zip", the
\* absolute "/etc/x.txt" and "../other/y.zip", which names the directory next
\* to the working area
Names ==
    {[abs |-> FALSE, dirs |-> <<>>, base |-> "a", ext |-> "txt"],
     [abs |-> FALSE, dirs |-> <<>>, base |-> "b", ext |-> "zip"],
     [abs |-> FALSE, dirs |-> <<"d">>, base |-> "c", ext |-> "zip"],
     [abs |-> TRUE, dirs |-> <<"etc">>, base |-> "x", ext |-> "txt"],
     [abs |-> FALSE, dirs |-> <<"..", "other">>, base |-> "y", ext |-> "zip"]}

\* the keys that os.path.join and os.path.abspath (line 111) resolve to a path
\* outside the working area
Escapes(name) == ~IsPrefix(Root, FullPath(Root, name))

Sources == {"none", "data_ok", "data_bad", "http_ok", "http_fail"}
Faults == {"none", "mkdir", "io", "badzip"}

SourceOk(e) == e.src \in {"data_ok", "http_ok"}

\* A File Entry as declared, with what its environment will do: src is the
\* "url" key (absent, a data URL that decodes or not, a remote URL that is
\* fetched or not) and fault is the step of its materialization that the
\* operating system or the archive library refuses.  The keys outside the
\* working area are followed with a source that resolves and without fault.
Entries ==
    {e \in [name : Names, src : Sources, save : BOOLEAN, overwrite : BOOLEAN,
            extract : BOOLEAN, fault : Faults, url : BOOLEAN, file : {FALSE},
            path : {<<>>}] :
        /\ e.url = (e.src # "none")
        /\ (~SourceOk(e) \/ ~e.save) => (e.fault = "none")
        /\ ~e.save => (e.overwrite /\ e.extract)
        /\ ~IsZip(e.name) => (e.extract /\ e.fault # "badzip")
        /\ e.fault = "badzip" => (e.extract /\ e.overwrite)
        /\ e.fault = "mkdir" => e.name.dirs # <<>>
        /\ Escapes(e.name) => (e.src = "data_ok" /\ e.save /\ e.fault = "none")}

\* the key orders of the files mappings of at most n entries (a mapping has
\* no key twice)
KeyLists(n) ==
    UNION {{ns \in [1..k -> Names] : \A i, j \in 1..k : ns[i] = ns[j] => i = j} : k \in 0..n}

\* the files mappings with the keys ns, in that order
RECURSIVE EntryLists(_)
EntryLists(ns) ==
    IF ns = <<>> THEN {<<>>}
    ELSE {<<e>> \o t : e \in {x \in Entries : x.name = Head(ns)}, t \in EntryLists(Tail(ns))}

\* the files mappings of at most n entries
FileLists(n) == UNION {EntryLists(ns) : ns \in KeyLists(n)}

(***************************************************************************)
(* process_files: one File Entry.                                          *)
(***************************************************************************)
\* the bytes of an entry's source, and of what is extracted from them
Bytes(e) == Basename(e.name)

\* a variant of KeepInMemory that forgets to drop the url key
KeepInMemoryWithUrl(f, e) ==
    [fs |-> f, entry |-> [e EXCEPT !.file = TRUE], res |-> "inmem"]

\* lines 139-141: save is false: the url key is dropped, the bytes stay in
\* memory under the key "file"
KeepInMemory(f, e) ==
    [fs |-> f, entry |-> [e EXCEPT !.url = FALSE, !.file = TRUE], res |-> "inmem"]

\* a variant of SaveZip that extracts over what the directory holds
SaveZipNoClear(f, e, path) ==
    IF ~e.overwrite /\ Exists(f, path)
    THEN [fs |-> f, entry |-> e, res |-> "skipzip"]
    ELSE IF e.fault = "badzip"
    THEN [fs |-> f, entry |-> e, res |-> "badzip"]
    ELSE [fs |-> ExtractAll(f, path, ZipMembers, Bytes(e)), entry |-> e, res |-> "extracted"]

\* a variant of SaveZip that extracts whatever overwrite says
SaveZipNoSkip(f, e, path) ==
    IF e.fault = "badzip"
    THEN [fs |-> f, entry |-> e, res |-> "badzip"]
    ELSE [fs |-> ExtractAll(f, path, ZipMembers, Bytes(e)), entry |-> e, res |-> "extracted"]

\* lines 120-132: a ".zip" target with extract: path is the directory of the
\* target, which line 116 has just created
SaveZip(f, e, path) ==
    LET cleared == IF Exists(f, path) /\ e.overwrite
                   THEN Makedirs(Rmtree(f, path), path)
                   ELSE f
    IN  IF Exists(f, path) /\ e.overwrite /\ e.fault = "io"
        THEN [fs |-> f, entry |-> e, res |-> "rmfail"]
        ELSE IF ~e.overwrite /\ Exists(cleared, path)
        THEN [fs |-> cleared, entry |-> e, res |-> "skipzip"]
        ELSE IF e.fault = "badzip"
        THEN [fs |-> cleared, entry |-> e, res |-> "badzip"]
        ELSE [fs |-> ExtractAll(cleared, path, ZipMembers, Bytes(e)),
              entry |-> e, res |-> "extracted"]

\* a variant of SaveFile that writes whether the target exists or not
SaveFileAlways(f, e, full) ==
    IF e.fault = "io"
    THEN [fs |-> f, entry |-> e, res |-> "writefail"]
    ELSE [fs |-> WriteFile(f, full, Bytes(e)), entry |-> e, res |-> "written"]

\* lines 133-138: any other target is written unless it exists and overwrite
\* is false
SaveFile(f, e, full) ==
    IF e.overwrite \/ ~Exists(f, full)
    THEN IF e.fault = "io"
         THEN [fs |-> f, entry |-> e, res |-> "writefail"]
         ELSE [fs |-> WriteFile(f, full, Bytes(e)), entry |-> e, res |-> "written"]
    ELSE [fs |-> f, entry |-> e, res |-> "kept"]

\* lines 110-138: save is true
Save(f, e, root) ==
    LET full == FullPath(root, e.name)
        path == Dirname(full)
        e1 == [e EXCEPT !.path = path]
    IN  IF e.fault = "mkdir" /\ ~Exists(f, path)
        THEN [fs |-> f, entry |-> e1, res |-> "mkdirfail"]
        ELSE IF IsZip(e.name) /\ e.extract
        THEN SaveZip(Makedirs(f, path), e1, path)
        ELSE SaveFile(Makedirs(f, path), e1, full)

\* lines 91-144: the body of the loop for one entry
ProcessEntry(f, e, root) ==
    IF ~e.url THEN [fs |-> f, entry |-> e, res |-> "nourl"]
    ELSE IF ~SourceOk(e) THEN [fs |-> f, entry |-> e, res |-> "srcfail"]
    ELSE IF e.save THEN Save(f, e, root)
    ELSE KeepInMemory(f, e)

\* the outcomes after which the code executes `return self.log(...)`
Returns(res) == res \in {"srcfail", "mkdirfail", "rmfail", "skipzip", "badzip", "writefail"}

\* the message of that return (lines 118, 127, 144)
LogOf(e, res) ==
    [kind |-> CASE res = "mkdirfail" -> "Error creating directory"
                [] res = "skipzip" -> "Skipping ZIP file"
                [] OTHER -> "Error saving or extracting file",
     name |-> Key(e.name)]

(***************************************************************************)
(* process_files as called from pipe (line 172).                           *)
(***************************************************************************)
pipeRest == <<messages, stream, orig, header, template, system, hooks, branch,
              invoked, wire, taken, calls, pend, out, ctl>>

\* lines 90-144: the loop takes the next entry; a failure returns from
\* process_files
FilesEntry ==
    /\ pc = "files" /\ ctl = "gen"
    /\ header.kind = "mapping" /\ "files" \in header.keys
    /\ idx < Len(files)
    /\ LET e == files[idx + 1]
           r == ProcessEntry(fs, e, Root)
       IN  /\ fs' = r.fs
           /\ files' = [files EXCEPT ![idx + 1] = r.entry]
           /\ idx' = idx + 1
           /\ outcome' = Append(outcome, r.res)
           /\ snap' = Append(snap, fs)
           /\ IF Returns(r.res)
              THEN /\ log' = Append(log, LogOf(e, r.res))
                   /\ filesRet' = "None"
                   /\ pc' = "render"
              ELSE UNCHANGED <<log, filesRet, pc>>
    /\ UNCHANGED pipeRest

\* line 148: the loop is over (or there is no "files" key)
FilesReturn ==
    /\ pc = "files" /\ ctl = "gen"
    /\ ~(header.kind = "mapping" /\ "files" \in header.keys) \/ idx = Len(files)
    /\ filesRet' = "files"
    /\ pc' = "render"
    /\ UNCHANGED <<fs, files, idx, outcome, snap, log>>
    /\ UNCHANGED pipeRest

(***************************************************************************)
(* process_files in isolation: the state of a request at line 172, for     *)
(* every files mapping of at most MaxFiles entries and every working area  *)
(* the split can leave behind.                                             *)
(***************************************************************************)
WorkingAreas ==
    {EmptyRoot} \cup {ExtractAll(EmptyRoot, Root, a, "sys") : a \in SysArchives}

InitFiles ==
    /\ pc = "files" /\ ctl = "gen"
    /\ messages = <<[role |-> "system", content |-> "S1"]>>
    /\ orig = messages
    /\ stream = FALSE
    /\ \E ns \in KeyLists(MaxFiles) : files \in EntryLists(ns)
    /\ header = [kind |-> "mapping", keys |-> {"files"}]
    /\ template = "T1"
    /\ fs \in WorkingAreas
    /\ log = <<>> /\ idx = 0 /\ outcome = <<>> /\ snap = <<>> /\ filesRet = "unset"
    /\ system = "" /\ hooks = [pipe |-> "none", inlet |-> "none", outlet |-> "none"]
    /\ branch = "none" /\ invoked = {} /\ wire = <<>> /\ taken = 0 /\ calls = <<>>
    /\ pend = <<>> /\ out = <<>>

NextFiles == FilesEntry \/ FilesReturn

SpecFiles == InitFiles /\ [][NextFiles]_vars

(***************************************************************************)
(* Inputs of a whole request.                                              *)
(***************************************************************************)
Msgs ==
    {[role |-> "system", content |-> "S1"], [role |-> "user", content |-> "U1"],
     [role |-> "assistant", content |-> "A1"]}

MsgLists(n) == UNION {[1..k -> Msgs] : k \in 0..n}

HeaderKeys == {"ollama_url", "model", "open_ai_api_key", "requirements", "files"}

\* the files mappings a whole request is followed with
PipeFiles ==
    {s \in FileLists(1) :
        \A i \in 1..Len(s) : /\ s[i].name.base = "a" /\ s[i].save /\ s[i].overwrite
                             /\ s[i].src \in {"data_ok", "data_bad"}}

\* What the text of a system payload is to the split: no front matter, front
\* matter that yaml.safe_load rejects, front matter that loads as None or as a
\* string, or front matter that loads as a mapping with some keys.
Texts ==
    {t \in [front : {"none", "yamlerr", "null", "str", "map"}, keys : SUBSET HeaderKeys,
            files : PipeFiles, body : {"", "T1"}] :
        /\ t.front # "map" => (t.keys = {} /\ t.body = "T1")
        /\ "files" \notin t.keys => t.files = <<>>}

\* A system payload: plain text, or a base64 zip data URL that does not decode,
\* is no archive, or is an archive with the given members (whose system.mako,
\* if any, holds the text).
Payloads ==
    {p \in [zip : {"no", "b64err", "badzip", "ok"}, archive : SysArchives, text : Texts] :
        /\ p.zip # "ok" => p.archive = SysMembers
        /\ (p.zip \in {"b64err", "badzip"} \/ <<"system.mako">> \notin p.archive)
               => p.text.front = "none"}

\* the payload of a request without a system message: the empty text
EmptyPayload ==
    [zip |-> "no", archive |-> SysMembers,
     text |-> [front |-> "none", keys |-> {}, files |-> <<>>, body |-> ""]]

\* the chunks of a remote stream: choices[0].delta.content and whether
\* choices[0].finish_reason is 'stop'; or a chunk of another shape
Chunks ==
    {[kind |-> "delta", content |-> "A", stop |-> FALSE],
     [kind |-> "delta", content |-> "B", stop |-> FALSE],
     [kind |-> "delta", content |-> "A", stop |-> TRUE],
     [kind |-> "delta", content |-> "None", stop |-> TRUE],
     [kind |-> "delta", content |-> "NonStr", stop |-> FALSE],
     [kind |-> "bad", content |-> "None", stop |-> FALSE]}

\* what a pipe hook produces, item by item
Items == [kind : {"item"}, content : {"X", "Y"}, stop : {FALSE}]

\* what executing a template leaves in its context, hook by hook
HookSets == [pipe : {"none", "hook"}, inlet : {"none", "tag", "raise"},
             outlet : {"none", "wrap"}]

NoHooks == [pipe |-> "none", inlet |-> "none", outlet |-> "none"]

(***************************************************************************)
(* The response processor (lines 182-200).                                 *)
(***************************************************************************)
\* custom_response.process(text): CustomResponse echoes; the outlet class of
\* the model brackets each fragment
Process(kind, text) == IF kind = "none" THEN <<text>> ELSE <<"<" \o text \o ">">>

\* custom_response.final(): CustomResponse has nothing to add; the outlet
\* class of the model closes the response
Final(kind) == IF kind = "none" THEN <<>> ELSE <<"[END]">>

(***************************************************************************)
(* pipe, up to the dispatch.                                               *)
(***************************************************************************)
filesVars == <<files, idx, outcome, snap, filesRet>>
respVars == <<branch, invoked, wire, taken, calls, pend, out>>

Ended == {"done", "raised"}

\* the host asks for the next fragment: the generator body runs on
HostNext ==
    /\ ctl = "host" /\ pc \notin Ended \cup {"closed"}
    /\ ctl' = "gen"
    /\ UNCHANGED <<pc, messages, stream, orig, header, template, fs, log, system, hooks>>
    /\ UNCHANGED filesVars /\ UNCHANGED respVars

\* the host gives the output stream up: closing a suspended generator raises
\* GeneratorExit at its yield, which no handler of pipe catches (line 257
\* catches Exception), so the body does not run on
HostClose ==
    /\ ctl = "host" /\ pc \notin Ended \cup {"closed"}
    /\ pc' = "closed"
    /\ UNCHANGED <<ctl, messages, stream, orig, header, template, fs, log, system, hooks>>
    /\ UNCHANGED filesVars /\ UNCHANGED respVars

\* lines 157-158: the working area
Start ==
    /\ pc = "start" /\ ctl = "gen"
    /\ fs' = Makedirs(fs, Root)
    /\ pc' = "split"
    /\ UNCHANGED <<ctl, messages, stream, orig, header, template, log, system, hooks>>
    /\ UNCHANGED filesVars /\ UNCHANGED respVars

\* line 42: the content of the first system message, or ""
SystemTemplate(msgs) ==
    IF \E i \in 1..Len(msgs) : msgs[i].role = "system"
    THEN msgs[CHOOSE i \in 1..Len(msgs) :
                 /\ msgs[i].role = "system"
                 /\ \A j \in 1..(i - 1) : msgs[j].role # "system"].content
    ELSE ""

\* lines 45-58: the text the front matter is looked for in
TextOf(p) ==
    IF p.zip = "ok" /\ <<"system.mako">> \notin p.archive
    THEN [front |-> "none", keys |-> {}, files |-> <<>>, body |-> ""]
    ELSE p.text

\* lines 60-64: the header the split returns
HeaderOf(t) ==
    CASE t.front = "map" -> [kind |-> "mapping", keys |-> t.keys]
      [] t.front = "null" -> [kind |-> "null", keys |-> {}]
      [] t.front = "str" -> [kind |-> "str", keys |-> {}]
      [] OTHER -> [kind |-> "mapping", keys |-> {}]

\* the exception the split raises on payload p, which line 163 prints
SplitFailure(p) ==
    CASE p.zip = "b64err" -> "binascii.Error"
      [] p.zip = "badzip" -> "BadZipFile"
      [] OTHER -> "YAMLError"

\* lines 160-163 and spit_system_prompt (lines 41-64) on payload p: an
\* exception of the split ends the generator
SplitOn(p) ==
    /\ fs' = IF p.zip = "ok" THEN ExtractAll(fs, Root, p.archive, "sys") ELSE fs
    /\ IF p.zip \in {"b64err", "badzip"} \/ (TextOf(p)).front = "yamlerr"
       THEN /\ log' = Append(log, [kind |-> "Failed to parse yaml header",
                                    name |-> SplitFailure(p)])
            /\ pc' = "done" /\ ctl' = "host"
            /\ UNCHANGED <<header, files, template>>
       ELSE /\ header' = HeaderOf(TextOf(p))
            /\ files' = (TextOf(p)).files
            /\ template' = (TextOf(p)).body
            /\ pc' = "reqs"
            /\ UNCHANGED <<log, ctl>>

Split ==
    /\ pc = "split" /\ ctl = "gen"
    /\ IF SystemTemplate(messages) = ""
       THEN SplitOn(EmptyPayload)
       ELSE \E p \in Payloads : SplitOn(p)
    /\ UNCHANGED <<messages, stream, orig, system, hooks, idx, outcome, snap, filesRet>>
    /\ UNCHANGED respVars

\* lines 165-170: `in` on a header that is None raises; a failing install
\* raises; either ends the generator
Requirements ==
    /\ pc = "reqs" /\ ctl = "gen"
    /\ \E installs \in BOOLEAN :
        /\ ~(header.kind = "mapping" /\ "requirements" \in header.keys) => installs
        /\ IF header.kind = "null" \/ ~installs
           THEN /\ log' = Append(log, [kind |-> "Failed to install requirements", name |-> ""])
                /\ pc' = "done" /\ ctl' = "host"
           ELSE /\ pc' = "files"
                /\ UNCHANGED <<log, ctl>>
    /\ UNCHANGED <<messages, stream, orig, header, template, fs, system, hooks>>
    /\ UNCHANGED filesVars /\ UNCHANGED respVars

\* render (lines 66-83): the prompt a template renders to
Rendered(t) == IF t = "" THEN "" ELSE "prompt of " \o t

RenderError == "Error processing template"

\* line 174 and render: header["root"] = root raises on a header that is no
\* mapping, the template may raise; otherwise the prompt and the hooks found
Render ==
    /\ pc = "render" /\ ctl = "gen"
    /\ \E ok \in BOOLEAN, h \in HookSets :
        /\ header.kind # "mapping" => ~ok
        /\ template = "" => (ok = (header.kind = "mapping"))
        /\ (~ok \/ template = "") => h = NoHooks
        /\ system' = IF ok THEN Rendered(template) ELSE RenderError
        /\ hooks' = h
        /\ header' = IF header.kind = "mapping"
                     THEN [header EXCEPT !.keys = @ \cup {"root"}]
                     ELSE header
    /\ pc' = "shape"
    /\ UNCHANGED <<ctl, messages, stream, orig, template, fs, log>>
    /\ UNCHANGED filesVars /\ UNCHANGED respVars

\* a variant of DropSystem that removes the first system message only
RECURSIVE DropFirstSystem(_)
DropFirstSystem(msgs) ==
    IF msgs = <<>> THEN <<>>
    ELSE IF Head(msgs).role = "system" THEN Tail(msgs)
    ELSE <<Head(msgs)>> \o DropFirstSystem(Tail(msgs))

\* line 176: the messages that are not system messages
RECURSIVE DropSystem(_)
DropSystem(msgs) ==
    IF msgs = <<>> THEN <<>>
    ELSE IF Head(msgs).role # "system"
         THEN <<Head(msgs)>> \o DropSystem(Tail(msgs))
         ELSE DropSystem(Tail(msgs))

\* lines 176-177: the default shaping
Shaped(msgs, prompt) == <<[role |-> "system", content |-> prompt]>> \o DropSystem(msgs)

\* line 180: what the inlet hook of the model returns
Inlet(kind, msgs) ==
    IF kind = "tag" THEN Append(msgs, [role |-> "user", content |-> "inlet"]) ELSE msgs

\* lines 176-200: the request is shaped, the inlet hook (or the identity) is
\* applied, the response processor is made
Shape ==
    /\ pc = "shape" /\ ctl = "gen"
    /\ IF hooks.inlet = "raise"
       THEN /\ messages' = Shaped(messages, system)
            /\ pc' = "raised" /\ ctl' = "host"
       ELSE /\ messages' = Inlet(hooks.inlet, Shaped(messages, system))
            /\ pc' = "dispatch"
            /\ UNCHANGED ctl
    /\ UNCHANGED <<stream, orig, header, template, fs, log, system, hooks>>
    /\ UNCHANGED filesVars /\ UNCHANGED respVars

(***************************************************************************)
(* pipe: the dispatch (lines 198-267) and the normalization of the         *)
(* response.                                                               *)
(***************************************************************************)
Has(k) == header.kind = "mapping" /\ k \in header.keys

\* a variant of Select that tests the remote provider before the local one
SelectRemoteFirst(h, hasLocal, hasRemote) ==
    IF h.pipe # "none" THEN "pipe"
    ELSE IF hasRemote THEN "remote"
    ELSE IF hasLocal THEN "local"
    ELSE "echo"

\* lines 202, 209, 239, 266: the alternative the if/elif chain takes
Select(h, hasLocal, hasRemote) ==
    IF h.pipe # "none" THEN "pipe"
    ELSE IF hasLocal THEN "local"
    ELSE IF hasRemote THEN "remote"
    ELSE "echo"

Selected ==
    Select(hooks, Has("ollama_url") /\ Has("model"), Has("open_ai_api_key") /\ Has("model"))

upToDispatch == <<messages, stream, orig, header, template, fs, log, system, hooks>>

\* the responses a provider stream or a pipe hook can be, within the bounds
RECURSIVE SeqsUpTo(_, _)
SeqsUpTo(S, n) ==
    IF n = 0 THEN {<<>>}
    ELSE LET shorter == SeqsUpTo(S, n - 1)
         IN  shorter \cup {Append(w, x) : w \in {v \in shorter : Len(v) = n - 1}, x \in S}

Fits(w, max) == Len(w) <= max /\ Len(orig) + Len(files) + Len(w) <= MaxSize

\* lines 202-203: the pipe hook is called
DispatchPipe ==
    /\ pc = "dispatch" /\ ctl = "gen" /\ Selected = "pipe"
    /\ branch' = "pipe"
    /\ invoked' = invoked \cup {"pipe"}
    /\ \E w \in SeqsUpTo(Items, MaxItems) : Fits(w, MaxItems) /\ wire' = w
    /\ pc' = "ploop"
    /\ UNCHANGED <<ctl, taken, calls, pend, out>>
    /\ UNCHANGED upToDispatch /\ UNCHANGED filesVars

\* lines 209-214: the names ollama_url and ollama_model are bound nowhere
\* (lines 210-211 bind OLLAMA_URL and MODEL), so evaluating the argument of
\* Client raises NameError before any client exists
DispatchLocal ==
    /\ pc = "dispatch" /\ ctl = "gen" /\ Selected = "local"
    /\ branch' = "local"
    /\ pc' = "raised" /\ ctl' = "host"
    /\ UNCHANGED <<invoked, wire, taken, calls, pend, out>>
    /\ UNCHANGED upToDispatch /\ UNCHANGED filesVars

\* lines 239-246 and 259-260: the remote client is called; with streaming the
\* response is a stream of chunks, without it the one message, which is
\* processed at once
DispatchRemote ==
    /\ pc = "dispatch" /\ ctl = "gen" /\ Selected = "remote"
    /\ branch' = "remote"
    /\ invoked' = invoked \cup {"remote"}
    /\ IF stream
       THEN /\ \E w \in SeqsUpTo(Chunks, MaxChunks) : Fits(w, MaxChunks) /\ wire' = w
            /\ pc' = "rloop"
            /\ UNCHANGED <<taken, calls, pend>>
       ELSE \E c \in {"A", "B"} :
            /\ wire' = <<[kind |-> "message", content |-> c, stop |-> TRUE]>>
            /\ taken' = 1
            /\ calls' = Append(calls, [op |-> "process", arg |-> c])
            /\ pend' = Process(hooks.outlet, c)
            /\ pc' = "sproc"
    /\ UNCHANGED <<ctl, out>>
    /\ UNCHANGED upToDispatch /\ UNCHANGED filesVars

\* a variant of EchoFragment without the prefix
EchoFragmentBare(prompt) == prompt

\* line 267: f"system: {system}"
EchoFragment(prompt) == "system: " \o prompt

\* lines 266-267: the prompt is echoed
DispatchEcho ==
    /\ pc = "dispatch" /\ ctl = "gen" /\ Selected = "echo"
    /\ branch' = "echo"
    /\ pend' = <<EchoFragment(system)>>
    /\ pc' = "tail"
    /\ UNCHANGED <<ctl, invoked, wire, taken, calls, out>>
    /\ UNCHANGED upToDispatch /\ UNCHANGED filesVars

\* a variant of Suspended with which the body runs on after a yield
NotSuspended == "gen"

\* who has control after a `yield`: the host, until it asks for the next
\* fragment
Suspended == "host"

\* a `yield resp`: the fragment goes to the host and the generator is
\* suspended
Yield ==
    /\ ctl = "gen" /\ pend # <<>>
    /\ out' = Append(out, Head(pend))
    /\ pend' = Tail(pend)
    /\ ctl' = Suspended
    /\ UNCHANGED <<pc, branch, invoked, wire, taken, calls>>
    /\ UNCHANGED upToDispatch /\ UNCHANGED filesVars

\* line 249: chunk.choices[0].delta.content or ""
Line(c) == IF c.content = "None" THEN "" ELSE c.content

\* line 251: type(line) == str
IsStr(line) == line # "NonStr"

ChunkFailure == "Failed to process chunk"

\* a variant of OnChunk whose handler leaves the loop
OnChunkBreak(c, outlet) ==
    IF c.kind = "bad"
    THEN [called |-> <<>>, pend |-> <<"Failed to process chunk">>, pc |-> "tail"]
    ELSE IF c.content # "NonStr"
    THEN [called |-> <<[op |-> "process", arg |-> IF c.content = "None" THEN "" ELSE c.content]>>,
          pend |-> IF outlet = "none"
                   THEN <<IF c.content = "None" THEN "" ELSE c.content>>
                   ELSE <<"<" \o (IF c.content = "None" THEN "" ELSE c.content) \o ">">>,
          pc |-> "rproc"]
    ELSE [called |-> <<>>, pend |-> <<>>, pc |-> "rproc"]

\* lines 248-253 and 257-258 on chunk c: its content, if a string, is
\* processed; a chunk of another shape raises and the handler yields the
\* failure; the loop goes on either way
OnChunk(c, outlet) ==
    IF c.kind = "bad"
    THEN [called |-> <<>>, pend |-> <<ChunkFailure>>, pc |-> "rback"]
    ELSE IF IsStr(Line(c))
    THEN [called |-> <<[op |-> "process", arg |-> Line(c)]>>,
          pend |-> Process(outlet, Line(c)), pc |-> "rproc"]
    ELSE [called |-> <<>>, pend |-> <<>>, pc |-> "rproc"]

\* line 247: the loop takes the next chunk of the remote stream
RemoteChunk ==
    /\ pc = "rloop" /\ ctl = "gen" /\ pend = <<>>
    /\ taken < Len(wire)
    /\ taken' = taken + 1
    /\ LET r == OnChunk(wire[taken + 1], hooks.outlet)
       IN  /\ calls' = calls \o r.called
           /\ pend' = r.pend
           /\ pc' = r.pc
    /\ UNCHANGED <<ctl, branch, invoked, wire, out>>
    /\ UNCHANGED upToDispatch /\ UNCHANGED filesVars

\* lines 254-256: after the fragments of the chunk, a finish_reason of 'stop'
\* makes the fragments of final() follow; the loop goes on in either case
RemoteStop ==
    /\ pc = "rproc" /\ ctl = "gen" /\ pend = <<>>
    /\ IF wire[taken].stop
       THEN /\ calls' = Append(calls, [op |-> "final", arg |-> ""])
            /\ pend' = Final(hooks.outlet)
       ELSE UNCHANGED <<calls, pend>>
    /\ pc' = "rback"
    /\ UNCHANGED <<ctl, branch, invoked, wire, taken, out>>
    /\ UNCHANGED upToDispatch /\ UNCHANGED filesVars

\* line 247: back at the head of the loop
RemoteBack ==
    /\ pc = "rback" /\ ctl = "gen" /\ pend = <<>>
    /\ pc' = "rloop"
    /\ UNCHANGED <<ctl, branch, invoked, wire, taken, calls, pend, out>>
    /\ UNCHANGED upToDispatch /\ UNCHANGED filesVars

\* lines 263-264: final() after the one message
SingleFinal ==
    /\ pc = "sproc" /\ ctl = "gen" /\ pend = <<>>
    /\ calls' = Append(calls, [op |-> "final", arg |-> ""])
    /\ pend' = Final(hooks.outlet)
    /\ pc' = "tail"
    /\ UNCHANGED <<ctl, branch, invoked, wire, taken, out>>
    /\ UNCHANGED upToDispatch /\ UNCHANGED filesVars

\* lines 203-205: the next item of the pipe hook's output is processed
PipeItem ==
    /\ pc = "ploop" /\ ctl = "gen" /\ pend = <<>>
    /\ taken < Len(wire)
    /\ taken' = taken + 1
    /\ calls' = Append(calls, [op |-> "process", arg |-> wire[taken + 1].content])
    /\ pend' = Process(hooks.outlet, wire[taken + 1].content)
    /\ pc' = "pproc"
    /\ UNCHANGED <<ctl, branch, invoked, wire, out>>
    /\ UNCHANGED upToDispatch /\ UNCHANGED filesVars

\* lines 206-207: final() inside the loop over the items
PipeFinal ==
    /\ pc = "pproc" /\ ctl = "gen" /\ pend = <<>>
    /\ calls' = Append(calls, [op |-> "final", arg |-> ""])
    /\ pend' = Final(hooks.outlet)
    /\ pc' = "pback"
    /\ UNCHANGED <<ctl, branch, invoked, wire, taken, out>>
    /\ UNCHANGED upToDispatch /\ UNCHANGED filesVars

\* line 203: back at the head of the loop
PipeBack ==
    /\ pc = "pback" /\ ctl = "gen" /\ pend = <<>>
    /\ pc' = "ploop"
    /\ UNCHANGED <<ctl, branch, invoked, wire, taken, calls, pend, out>>
    /\ UNCHANGED upToDispatch /\ UNCHANGED filesVars

\* the response is exhausted, or the branch is over: the generator returns
Finish ==
    /\ pc \in {"rloop", "ploop", "tail"} /\ ctl = "gen" /\ pend = <<>>
    /\ pc \in {"rloop", "ploop"} => taken = Len(wire)
    /\ pc' = "done" /\ ctl' = "host"
    /\ UNCHANGED <<branch, invoked, wire, taken, calls, pend, out>>
    /\ UNCHANGED upToDispatch /\ UNCHANGED filesVars

(***************************************************************************)
(* A whole request.                                                        *)
(***************************************************************************)
Init ==
    /\ pc = "start" /\ ctl = "host"
    /\ messages \in MsgLists(MaxMsgs)
    /\ orig = messages
    /\ stream \in BOOLEAN
    /\ header = [kind |-> "unset", keys |-> {}]
    /\ files = <<>>
    /\ template = ""
    /\ fs = [dirs |-> {}, files |-> {}]
    /\ log = <<>> /\ idx = 0 /\ outcome = <<>> /\ snap = <<>> /\ filesRet = "unset"
    /\ system = "" /\ hooks = NoHooks
    /\ branch = "none" /\ invoked = {} /\ wire = <<>> /\ taken = 0 /\ calls = <<>>
    /\ pend = <<>> /\ out = <<>>

Next ==
    \/ HostNext \/ HostClose \/ Start \/ Split \/ Requirements \/ FilesEntry \/ FilesReturn
    \/ Render \/ Shape
    \/ DispatchPipe \/ DispatchLocal \/ DispatchRemote \/ DispatchEcho
    \/ Yield \/ RemoteChunk \/ RemoteStop \/ RemoteBack \/ SingleFinal
    \/ PipeItem \/ PipeFinal \/ PipeBack \/ Finish

Spec == Init /\ [][Next]_vars

(***************************************************************************)
(* Properties of a whole request (specification Spec).                     *)
(***************************************************************************)
LocalDeclared == Has("ollama_url") /\ Has("model")
RemoteDeclared == Has("open_ai_api_key") /\ Has("model")

\* the generator returned from the split or from the requirements
EarlyReturn ==
    \E i \in 1..Len(log) :
        log[i].kind \in {"Failed to parse yaml header", "Failed to install requirements"}

StageFailed ==
    \/ \E i \in 1..Len(log) : log[i].kind # "Skipping ZIP file"
    \/ system = RenderError

\* C2: a request in which a stage failed does not end with an empty output
\* stream.
C2_NoSilentFailure == (pc = "done" /\ StageFailed) => out # <<>>

\* the streams of well-formed local chunks {message: {content}, done} whose
\* last chunk, and no other, has done = true
LocalStreams ==
    {w \in SeqsUpTo([content : {"A", "B"}, done : BOOLEAN], MaxChunks) :
        /\ w # <<>>
        /\ \A i \in 1..Len(w) : w[i].done = (i = Len(w))}

\* the contents in chunk order through the response processor, then final()
RECURSIVE Normalized(_, _)
Normalized(outlet, w) ==
    IF w = <<>> THEN Final(outlet)
    ELSE Process(outlet, Head(w).content) \o Normalized(outlet, Tail(w))

\* C4: a streaming request dispatched to the local provider ends with the
\* output stream of some well-formed chunk stream: its contents through the
\* response processor, in order, then the finalization fragments.
C4_LocalStreamNormalized ==
    (pc \in Ended /\ branch = "local" /\ stream)
        => (pc = "done" /\ \E w \in LocalStreams : out = Normalized(hooks.outlet, w))

\* a chunk with text content
IsText(c) == c.kind = "delta" /\ c.content \in {"A", "B"}

\* C5: a chunk of unrecognized shape does not end the stream: the generator
\* ends only when every chunk of the stream has been taken, and when a chunk
\* of unrecognized shape lies between two chunks with text, the fragments of
\* both are in the output, in their order, with the failure fragment between.
C5_BadChunkSkipped ==
    (branch = "remote" /\ stream /\ pc \in Ended)
        => /\ pc = "done" /\ taken = Len(wire)
           /\ \A i, j, k \in 1..Len(wire) :
                (i < j /\ j < k /\ IsText(wire[i]) /\ wire[j].kind = "bad" /\ IsText(wire[k]))
                    => \E a, b, c \in 1..Len(out) :
                        /\ a < b /\ b < c
                        /\ <<out[a]>> = Process(hooks.outlet, wire[i].content)
                        /\ out[b] = "Failed to process chunk"
                        /\ <<out[c]>> = Process(hooks.outlet, wire[k].content)

C5_Witness ==
    /\ pc = "done" /\ branch = "remote" /\ stream /\ Len(wire) = 3
    /\ wire[1].content = "A" /\ wire[2].kind = "bad" /\ wire[3].content = "B"
    /\ out = <<"A", "Failed to process chunk", "B">>

\* C6: at most one of the pipe hook and the two provider clients is invoked,
\* and none is invoked when an alternative before it in the order pipe hook,
\* local provider, remote provider matches.
C6_OneProvider ==
    /\ Cardinality(invoked) <= 1
    /\ hooks.pipe # "none" => invoked \subseteq {"pipe"}
    /\ LocalDeclared => invoked \cap {"remote"} = {}
    /\ "pipe" \in invoked => hooks.pipe # "none"
    /\ "local" \in invoked => LocalDeclared
    /\ "remote" \in invoked => RemoteDeclared

C6_Witness ==
    /\ pc = "done" /\ invoked = {"pipe"} /\ LocalDeclared /\ RemoteDeclared

\* C7: with no hook defined, the request handed to the dispatch holds exactly
\* one system message, at index 0, with the rendered prompt, followed by the
\* incoming messages that are not system messages, in their order.
C7_DefaultShaping ==
    ((pc = "dispatch" \/ branch # "none") /\ hooks = NoHooks)
        => /\ messages # <<>>
           /\ messages[1] = [role |-> "system", content |-> system]
           /\ \A i \in 2..Len(messages) : messages[i].role # "system"
           /\ Tail(messages) = SelectSeq(orig, LAMBDA m : m.role # "system")

C7_Witness ==
    /\ pc = "dispatch" /\ hooks = NoHooks /\ system = "prompt of T1"
    /\ orig = <<[role |-> "system", content |-> "S1"], [role |-> "system", content |-> "S1"]>>
    /\ messages = <<[role |-> "system", content |-> "prompt of T1"]>>

\* the front matter of the system payload did not parse
ParseFailed ==
    \E i \in 1..Len(log) :
        log[i] = [kind |-> "Failed to parse yaml header", name |-> "YAMLError"]

\* C11: a request whose front matter fails to parse goes on with an empty
\* mapping as its header: it is rendered and dispatched, and its output stream
\* is not empty.
C11_ParseFailureIsNoHeader ==
    (pc \in Ended /\ ParseFailed)
        => /\ header.kind = "mapping" /\ header.keys \subseteq {"root"}
           /\ branch # "none"
           /\ out # <<>>

\* C12: in a streaming request no chunk is taken from the provider stream
\* after a chunk that signals completion: a chunk with finish_reason 'stop'
\* that has been taken is the last chunk taken.
C12_StopsAtCompletion ==
    (branch = "remote" /\ stream)
        => \A i \in 1..taken : wire[i].stop => i = taken

\* C13: the request an inlet hook receives is the incoming request, with its
\* system messages as they came, and the request handed to the dispatch is
\* what the hook returned for it.
C13_InletGetsIncoming ==
    ((pc = "dispatch" \/ branch # "none") /\ hooks.inlet = "tag")
        => messages = Inlet("tag", orig)

\* the calls of final() on the response processor
FinalCalls == {i \in 1..Len(calls) : calls[i].op = "final"}

\* C17: a request that was answered by the pipe hook or by a provider has
\* called final() exactly once, after its last call of process().
C17_FinalOnce ==
    (pc = "done" /\ branch \in {"pipe", "local", "remote"})
        => FinalCalls = {Len(calls)} /\ calls # <<>>

\* the fragments the chunks w of a remote stream make, in their order
RECURSIVE Fragments(_, _)
Fragments(w, outlet) ==
    IF w = <<>> THEN <<>>
    ELSE (OnChunk(Head(w), outlet)).pend
         \o (IF Head(w).kind # "bad" /\ Head(w).stop THEN Final(outlet) ELSE <<>>)
         \o Fragments(Tail(w), outlet)

IsSeqPrefix(a, b) == Len(a) <= Len(b) /\ SubSeq(b, 1, Len(a)) = a

\* the fragments of the chunks before the one in hand have all been delivered,
\* and nothing has been made of a chunk that has not been taken
Unbuffered ==
    (branch = "remote" /\ stream /\ taken >= 1)
        => /\ IsSeqPrefix(Fragments(SubSeq(wire, 1, taken - 1), hooks.outlet), out)
           /\ IsSeqPrefix(out \o pend, Fragments(SubSeq(wire, 1, taken), hooks.outlet))

\* a step that delivers a fragment suspends the generator; while the host has
\* control no chunk is taken and nothing is processed; once the host has given
\* the stream up nothing happens any more
PullDriven ==
    /\ out' # out => (Len(out') = Len(out) + 1 /\ ctl' = "host")
    /\ ctl = "host" => (taken' = taken /\ calls' = calls /\ pend' = pend /\ out' = out)
    /\ pc # "closed"

\* C16: the normalization of a stream is pull-driven and unbuffered: a chunk
\* is taken from the provider stream only when every fragment of the chunks
\* before it has been delivered to the host, each pull of the host delivers at
\* most one fragment, and when the host stops pulling or gives the stream up
\* no further chunk is taken or processed.
C16_PullDriven == []Unbuffered /\ [][PullDriven]_vars

C16_Witness ==
    /\ pc = "closed" /\ branch = "remote" /\ stream
    /\ Len(wire) = 3 /\ taken = 1 /\ wire[2].content = "B"
    /\ out = <<"A">> /\ calls = <<[op |-> "process", arg |-> "A"]>>

(***************************************************************************)
(* Properties of process_files (specification SpecFiles).                  *)
(***************************************************************************)
\* the file system after the i-th entry taken
After(i) == IF i < idx THEN snap[i + 1] ELSE fs

\* the directory the i-th entry is saved to
Dest(i) == Dirname(FullPath(Root, files[i].name))

\* C3: process_files takes every declared entry unless the creation of a
\* directory failed: the failure of an entry does not keep the entries after
\* it from being materialized.
C3_FailureIsolated ==
    filesRet # "unset"
        => \/ idx = Len(files)
           \/ \E j \in 1..idx : outcome[j] = "mkdirfail"

\* C8: taking an entry with save = false leaves the file system as it was,
\* and once the bytes of its source are there the entry has the key "file"
\* and no key "url".
C8_InMemory ==
    \A i \in 1..idx :
        ~files[i].save
            => /\ After(i) = snap[i]
               /\ SourceOk(files[i]) => (files[i].file /\ ~files[i].url)

C8_Witness ==
    \E i \in 1..idx :
        /\ ~files[i].save /\ files[i].file /\ ~files[i].url
        /\ i > 1 /\ snap[i].files # {}

\* C9: a ".zip" entry with save, extract and overwrite that gets to the
\* extraction has its directory emptied and recreated first: a file that was
\* below the directory before the entry and is not in the archive is gone,
\* and what is below the directory afterwards came out of the archive.
C9_OverwriteClears ==
    \A i \in 1..idx :
        (/\ IsZip(files[i].name) /\ files[i].save /\ files[i].extract /\ files[i].overwrite
         /\ outcome[i] \in {"extracted", "badzip"})
            => /\ Dest(i) \in After(i).dirs
               /\ \A x \in snap[i].files :
                    (IsPrefix(Dest(i), x.p) /\ x.p \notin {Dest(i) \o m : m \in ZipMembers})
                        => ~Exists(After(i), x.p)
               /\ \A y \in After(i).files :
                    IsPrefix(Dest(i), y.p)
                        => (outcome[i] = "extracted" /\ y.c = Bytes(files[i])
                            /\ y.p \in {Dest(i) \o m : m \in ZipMembers})

C9_Witness ==
    \E i \in 1..idx :
        /\ IsZip(files[i].name) /\ files[i].overwrite /\ outcome[i] = "extracted"
        /\ \E x \in snap[i].files : x.p = Dest(i) \o <<"system.mako">>
        /\ \E x \in snap[i].files : x.p = Dest(i) \o <<"m.txt">> /\ x.c = "sys"

\* C10: a ".zip" entry with save and extract, with overwrite = false, whose
\* directory exists when it is taken is not extracted, the file system is
\* afterwards what it was before, and a message about the entry is logged: the
\* skip warning once the bytes of its source are there, the error otherwise.
C10_NoOverwriteSkips ==
    \A i \in 1..idx :
        (/\ IsZip(files[i].name) /\ files[i].save /\ files[i].extract /\ ~files[i].overwrite
         /\ files[i].src # "none" /\ Dest(i) \in snap[i].dirs)
            => /\ outcome[i] \notin {"extracted", "badzip"}
               /\ After(i) = snap[i]
               /\ \E n \in 1..Len(log) :
                    /\ log[n].name = Key(files[i].name)
                    /\ SourceOk(files[i]) => log[n].kind = "Skipping ZIP file"

C10_Witness ==
    \E i \in 1..idx :
        /\ IsZip(files[i].name) /\ ~files[i].overwrite /\ outcome[i] = "skipzip"
        /\ Dest(i) \in snap[i].dirs
        /\ \E x \in snap[i].files : IsPrefix(Dest(i), x.p)

\* C14: a ".zip" entry with save and extract, with overwrite = false, whose
\* source and archive are good is skipped when its directory existed before
\* the entry was taken, and is extracted into its directory, created for it,
\* when the directory did not exist.
C14_ExtractsIntoNewDirectory ==
    \A i \in 1..idx :
        (/\ IsZip(files[i].name) /\ files[i].save /\ files[i].extract /\ ~files[i].overwrite
         /\ SourceOk(files[i]) /\ files[i].fault = "none")
            => IF Exists(snap[i], Dest(i))
               THEN outcome[i] = "skipzip"
               ELSE /\ outcome[i] = "extracted"
                    /\ Dest(i) \in After(i).dirs
                    /\ \A m \in ZipMembers :
                         [p |-> Dest(i) \o m, c |-> Bytes(files[i])] \in After(i).files

\* the path the i-th entry is saved to
Target(i) == FullPath(Root, files[i].name)

\* C15: an entry with save that is no archive to extract, whose source bytes
\* are there and whose directory could be made: when overwrite is true or the
\* target did not exist, the bytes are written to the target (unless the
\* operating system refuses the write); when overwrite is false and the target
\* existed, the file system is what it was and nothing is logged for the entry.
C15_WriteUnlessKept ==
    \A i \in 1..idx :
        (/\ files[i].save /\ (~IsZip(files[i].name) \/ ~files[i].extract)
         /\ SourceOk(files[i]) /\ outcome[i] # "mkdirfail")
            => IF files[i].overwrite \/ ~Exists(snap[i], Target(i))
               THEN IF files[i].fault = "io"
                    THEN outcome[i] = "writefail"
                    ELSE /\ outcome[i] = "written"
                         /\ [p |-> Target(i), c |-> Bytes(files[i])] \in After(i).files
                         /\ \A x \in After(i).files : x.p = Target(i) => x.c = Bytes(files[i])
               ELSE /\ outcome[i] = "kept"
                    /\ After(i) = snap[i]
                    /\ \A n \in 1..Len(log) : log[n].name # Key(files[i].name)

C15_Witness ==
    \E i \in 1..idx :
        /\ files[i].save /\ ~files[i].overwrite /\ outcome[i] = "kept"
        /\ [p |-> Target(i), c |-> "sys"] \in snap[i].files
        /\ [p |-> Target(i), c |-> "sys"] \in After(i).files
        /\ i > 1 /\ outcome[i - 1] = "extracted"

\* the paths the i-th entry created, wrote or deleted
Changed(i) ==
    ((snap[i].dirs \ After(i).dirs) \cup (After(i).dirs \ snap[i].dirs))
    \cup {x.p : x \in (snap[i].files \ After(i).files) \cup (After(i).files \ snap[i].files)}

\* C18: every path an entry creates, writes, extracts into or deletes lies
\* inside the working area of the request.
C18_InsideWorkingArea ==
    \A i \in 1..idx : \A p \in Changed(i) : IsPrefix(Root, p)

\* the files that came into the working area with the system payload (i = 0)
\* or with the i-th entry
Materialized(i) == IF i = 0 THEN After(0).files ELSE After(i).files \ snap[i].files

\* the j-th entry is saved to the path p itself
Targets(j, p) ==
    /\ files[j].save
    /\ IF IsZip(files[j].name) /\ files[j].extract
       THEN p \in {Dest(j) \o m : m \in ZipMembers}
       ELSE p = Target(j)

\* the j-th entry is an archive to extract with overwrite, and p lies below
\* the directory it empties
Clears(j, p) ==
    /\ files[j].save /\ IsZip(files[j].name) /\ files[j].extract /\ files[j].overwrite
    /\ IsPrefix(Dest(j), p)

\* C19, as stated: when process_files returns, a file that the system payload
\* or an entry brought is still there with its content, unless a later entry
\* is saved to the path of that file.
C19_FilesSurvive ==
    filesRet # "unset"
        => \A i \in 0..idx : \A x \in Materialized(i) :
             x \in fs.files \/ \E j \in (i + 1)..idx : Targets(j, x.p)

\* C19, amended: when process_files returns, a file that the system payload or
\* an entry brought is still there with its content, unless a later entry is
\* saved to the path of that file, or a later ".zip" entry with save, extract
\* and overwrite has the file below the directory of its target, which it
\* empties before it extracts.
C19_FilesSurviveOutsideCleared ==
    filesRet # "unset"
        => \A i \in 0..idx : \A x \in Materialized(i) :
             x \in fs.files \/ \E j \in (i + 1)..idx : Targets(j, x.p) \/ Clears(j, x.p)

C19_Witness ==
    /\ filesRet = "files" /\ idx = 2
    /\ Key(files[1].name) = "a.txt" /\ outcome[1] = "written"
    /\ Key(files[2].name) = "d/c.zip" /\ outcome[2] = "extracted"
    /\ [p |-> Root \o <<"d", "old.txt">>, c |-> "sys"] \in Materialized(0)
    /\ ~Exists(fs, Root \o <<"d", "old.txt">>)
    /\ [p |-> Root \o <<"system.mako">>, c |-> "sys"] \in fs.files
    /\ [p |-> Root \o <<"a.txt">>, c |-> "a.txt"] \in fs.files

====
